---- MODULE Spec2Model ----
(***************************************************************************)
(* BirdWeather local cache: the incremental sync of detections, species    *)
(* metadata and species probabilities (data_store.py) and the GraphQL      *)
(* client it reads from (fetch_data.py).                                   *)
(*                                                                         *)
(* A table (polars DataFrame) is a sequence of rows.  A timestamp is an    *)
(* integer instant; the absent value None of an optional timestamp is 0.   *)
(***************************************************************************)
EXTENDS Integers, Sequences, FiniteSets, TLC

VARIABLES remote, detCache, detExists, sync, detLast,
          fetchArgs, fetchOut,
          mergeIn, mergeOut,
          probRemote, probCache, probExists, probAge, probLast,
          speciesRemote, metaCache, metaExists, metaLast, metaSync,
          gql,
          envOut,
          envRemote, envCache, envExists, envNow, envLast, envSync,
          stationRemote, stationCache, stationLast,
          aggIn, aggOut

detVars == <<remote, detCache, detExists, sync, detLast>>
fetchVars == <<fetchArgs, fetchOut>>
mergeVars == <<mergeIn, mergeOut>>
probVars == <<probRemote, probCache, probExists, probAge, probLast>>
metaVars == <<speciesRemote, metaCache, metaExists, metaLast, metaSync>>
envVars == <<envRemote, envCache, envExists, envNow, envLast, envSync>>
stationVars == <<stationRemote, stationCache, stationLast>>
aggVars == <<aggIn, aggOut>>
vars == <<detVars, fetchVars, mergeVars, probVars, metaVars, gql, envOut, envVars,
          stationVars, aggVars>>

(***************************************************************************)
(* Bounds of the model.                                                    *)
(***************************************************************************)
\* detections the station ever lists in the sync model (ids 1..MaxId)
MaxId == 4
\* page_size and max_pages passed by sync_detections (100 and 1000 in the
\* code), scaled down so that a listing spans several pages and can exceed
\* the page cap
DetPageSize == 1
DetMaxPages == 3
\* longest listing, largest page size and largest page cap of the
\* get_detections model
MaxListing == 4
MaxPageSize == 3
MaxPagesArg == 2
\* longest cached and longest fetched table of the merge model
MaxMergeLen == 2

\* species the station's probability model lists
MaxProbSpecies == 1
\* days a probability cache file is followed after its last write
MaxProbAge == 9

\* species known to the station and to the detections (speciesId 1..MaxSpecies)
MaxSpecies == 2

\* largest retries argument of a query_graphql call
MaxRetries == 4

\* readings the remote side holds, and the clock's last tick
MaxEnvListing == 3
MaxEnvNow == 4
\* page size and page cap of the environment sync's fetch
EnvPageSize == 1
EnvMaxPages == 3
\* clock ticks in one second: timestamps are finer than the whole seconds
\* of the period's bounds
TicksPerSecond == 2

\* numeric station ids the remote side hands out (1..MaxStationId)
MaxStationId == 2

\* detections handed to an aggregation, and the longest period_days
MaxAggLen == 3
MaxPeriodDays == 2

\* None of an optional timestamp (stop_before, earliest_detection_at)
NoneTs == 0

Ids == 1..MaxId
Ts == {1, 2, 3}
OptTs == Ts \cup {NoneTs}
\* a detection row: the columns the sync logic reads
Rows == [id : Ids, ts : Ts]

Min(a, b) == IF a <= b THEN a ELSE b

SeqsUpTo(S, n) == UNION {[1..k -> S] : k \in 0..n}

RowIds(rows) == {rows[i].id : i \in DOMAIN rows}

(***************************************************************************)
(* fetch_data.get_detections                                               *)
(***************************************************************************)
\* The server's answer to one page request: the nodes after the cursor.  The
\* cursor is the number of rows already served (None, the first page, is 0)
\* and is applied to the listing as it is when the request arrives.
PageNodes(listing, cursor, pageSize) ==
  SubSeq(listing, cursor + 1, Min(cursor + pageSize, Len(listing)))

\* pageInfo.hasNextPage of that answer; a server that always reports a next
\* page (more = TRUE) answers the request after the last row with no nodes
HasNextPage(listing, cursor, pageSize, more) ==
  more \/ cursor + pageSize < Len(listing)

\* (a variant that tests the cache boundary with < instead of <=)
IsBoundaryStrict(node, stop, earliest) ==
  \/ stop # NoneTs /\ node.ts < stop
  \/ earliest # NoneTs /\ node.ts < earliest

\* the two stop conditions tested on every node
IsBoundary(node, stop, earliest) ==
  \/ stop # NoneTs /\ node.ts <= stop
  \/ earliest # NoneTs /\ node.ts < earliest

\* index of the first node of a page at which the inner loop breaks, 0 if none
FirstHit(nodes, stop, earliest) ==
  LET hits == {i \in DOMAIN nodes : IsBoundary(nodes[i], stop, earliest)}
  IN IF hits = {} THEN 0 ELSE CHOOSE i \in hits : \A j \in hits : i <= j

\* (a variant that appends the node before testing it)
TakenNodesInclusive(nodes, hit) ==
  IF hit = 0 THEN nodes ELSE SubSeq(nodes, 1, hit)

\* the nodes of a page appended to all_nodes: those before the break
TakenNodes(nodes, hit) ==
  IF hit = 0 THEN nodes ELSE SubSeq(nodes, 1, hit - 1)

\* the state of the page loop before its first iteration
LoopStart(maxPages) ==
  [pageNum |-> 0, cursor |-> 0, allNodes |-> <<>>, requests |-> 0,
   hit |-> FALSE, done |-> maxPages <= 0]

\* one iteration of `for page_num in range(max_pages)`: one page request
\* against the listing and the scan of its nodes.  a: [pageSize, maxPages,
\* stop, earliest]; done says that the loop has ended.
page_request(listing, more, a, st) ==
  LET nodes == PageNodes(listing, st.cursor, a.pageSize)
      hit == FirstHit(nodes, a.stop, a.earliest)
      break == hit # 0 \/ ~HasNextPage(listing, st.cursor, a.pageSize, more)
  IN IF nodes = <<>>
     THEN [st EXCEPT !.requests = @ + 1, !.done = TRUE]
     ELSE [pageNum |-> st.pageNum + 1,
           cursor |-> IF break THEN st.cursor ELSE st.cursor + Len(nodes),
           allNodes |-> st.allNodes \o TakenNodes(nodes, hit),
           requests |-> st.requests + 1,
           hit |-> hit # 0,
           done |-> break \/ st.pageNum + 1 >= a.maxPages]

RECURSIVE GetDetectionsLoop(_, _)
GetDetectionsLoop(a, st) ==
  IF st.done THEN st
  ELSE GetDetectionsLoop(a, page_request(a.listing, a.more, a, st))

\* get_detections against a listing that does not change while it runs.
\* a: [listing, more, pageSize, maxPages, stop, earliest]; the result is the
\* rows in the order received, the number of page requests issued, and
\* hit_boundary
get_detections(a) ==
  LET st == GetDetectionsLoop(a, LoopStart(a.maxPages))
  IN [rows |-> st.allNodes, requests |-> st.requests, hit |-> st.hit]

(***************************************************************************)
(* data_store.sync_detections                                              *)
(***************************************************************************)
MaxTimestamp(rows) ==
  CHOOSE t \in {rows[i].ts : i \in DOMAIN rows} :
    \A i \in DOMAIN rows : rows[i].ts <= t

IsSortedByTs(rows) ==
  \A i, j \in DOMAIN rows : i < j => rows[i].ts <= rows[j].ts

IndexPerms(n) ==
  {p \in [1..n -> 1..n] : \A i, j \in 1..n : p[i] = p[j] => i = j}

\* (a variant that leaves the rows as they are)
sort_timestamp_skipped(rows) == {rows}

\* DataFrame.sort("timestamp"): maintain_order is left at its default, so the
\* order of rows with equal timestamps is not defined; every ordering of the
\* ties is a possible outcome
sort_timestamp(rows) ==
  {s \in {[i \in DOMAIN rows |-> rows[p[i]]] : p \in IndexPerms(Len(rows))} :
     IsSortedByTs(s)}

\* (a variant that keeps the first row of every id)
unique_id_keep_first(rows) ==
  LET keep == {i \in DOMAIN rows : \A j \in DOMAIN rows : j < i => rows[j].id # rows[i].id}
      RECURSIVE Pick(_)
      Pick(i) == IF i > Len(rows) THEN <<>>
                 ELSE IF i \in keep THEN <<rows[i]>> \o Pick(i + 1)
                 ELSE Pick(i + 1)
  IN Pick(1)

\* DataFrame.unique(subset=["id"], keep="last"): for every id the last row
\* that carries it (the order of the result is settled by the sort after it)
unique_id_keep_last(rows) ==
  LET keep == {i \in DOMAIN rows : \A j \in DOMAIN rows : j > i => rows[j].id # rows[i].id}
      RECURSIVE Pick(_)
      Pick(i) == IF i > Len(rows) THEN <<>>
                 ELSE IF i \in keep THEN <<rows[i]>> \o Pick(i + 1)
                 ELSE Pick(i + 1)
  IN Pick(1)

\* the merge of the cached and the fetched table: the set of tables the
\* three branches can produce
merge_detections(existing, new_data) ==
  IF existing # <<>>
  THEN IF new_data # <<>>
       THEN sort_timestamp(unique_id_keep_last(existing \o new_data))
       ELSE {existing}
  ELSE IF new_data # <<>> THEN sort_timestamp(new_data) ELSE {new_data}

DetIdle == [op |-> "none"]
SyncIdle == [pc |-> "idle"]

\* sync_detections up to its call of get_detections: read the cache file
\* and take its latest timestamp as the stop boundary
SyncBegin ==
  \E earliest \in OptTs :
    LET existing == IF detExists THEN detCache ELSE <<>>
        stop_before == IF detExists /\ existing # <<>>
                       THEN MaxTimestamp(existing) ELSE NoneTs
    IN /\ sync.pc = "idle"
       /\ sync' = [pc |-> "fetch", existed |-> detExists, existing |-> existing,
                   stop |-> stop_before, earliest |-> earliest,
                   st |-> LoopStart(DetMaxPages),
                   \* this call repeats the previous one, the listing
                   \* unchanged since that one began
                   repeat |-> /\ detLast.op = "sync"
                              /\ detLast.quiet
                              /\ detLast.earliest = earliest,
                   quiet |-> TRUE]
       /\ UNCHANGED <<remote, detCache, detExists, detLast>>

\* one page request of the running get_detections; the page that ends the
\* loop is followed, with nothing in between, by the merge and the write of
\* the cache file
FetchPage ==
  /\ sync.pc = "fetch"
  /\ ~sync.st.done
  /\ LET a == [pageSize |-> DetPageSize, maxPages |-> DetMaxPages,
               stop |-> sync.stop, earliest |-> sync.earliest]
         st == page_request(remote, FALSE, a, sync.st)
     IN IF ~st.done
        THEN /\ sync' = [sync EXCEPT !.st = st]
             /\ UNCHANGED <<remote, detCache, detExists, detLast>>
        ELSE \E combined \in merge_detections(sync.existing, st.allNodes) :
               /\ IF combined # <<>>
                  THEN detCache' = combined /\ detExists' = TRUE
                  ELSE UNCHANGED <<detCache, detExists>>
               /\ detLast' = [op |-> "sync", existed |-> sync.existed,
                              existing |-> sync.existing, stop |-> sync.stop,
                              earliest |-> sync.earliest,
                              fetched |-> st.allNodes, requests |-> st.requests,
                              result |-> combined,
                              repeat |-> sync.repeat, quiet |-> sync.quiet]
               /\ sync' = SyncIdle
               /\ UNCHANGED remote

\* the station records a detection: a row with a new id, of any timestamp,
\* is added at the head of the listing (served newest first).  This happens
\* between syncs and between the page requests of a running one.
RemoteArrive ==
  \E t \in Ts :
    /\ Len(remote) < MaxId
    /\ remote' = <<[id |-> Len(remote) + 1, ts |-> t]>> \o remote
    /\ detLast' = DetIdle
    /\ sync' = IF sync.pc = "fetch"
               THEN [sync EXCEPT !.repeat = FALSE, !.quiet = FALSE]
               ELSE sync
    /\ UNCHANGED <<detCache, detExists>>

DetInit ==
  /\ remote = <<>>
  /\ detCache = <<>>
  /\ detExists = FALSE
  /\ sync = SyncIdle
  /\ detLast = DetIdle

FetchIdleInit ==
  /\ fetchArgs = [listing |-> <<>>, more |-> FALSE, pageSize |-> 1,
                  maxPages |-> 1, stop |-> NoneTs, earliest |-> NoneTs]
  /\ fetchOut = [done |-> FALSE]

MergeIdleInit ==
  /\ mergeIn = [existing |-> <<>>, new_data |-> <<>>]
  /\ mergeOut = [done |-> FALSE]

ProbIdleInit ==
  /\ probRemote = <<>>
  /\ probCache = <<>>
  /\ probExists = FALSE
  /\ probAge = 0
  /\ probLast = [op |-> "none"]

MetaIdleInit ==
  /\ speciesRemote = [id \in 1..MaxSpecies |-> [where |-> "none", ebirdUrl |-> 0]]
  /\ metaCache = <<>>
  /\ metaExists = FALSE
  /\ metaLast = [op |-> "none"]
  /\ metaSync = [pc |-> "idle"]

GqlIdle ==
  [pc |-> "idle", retries |-> 0, attempt |-> 0, posts |-> 0,
   waits |-> <<>>, log |-> <<>>, result |-> [kind |-> "none", value |-> 0]]

EnvFetchIdleInit == envOut = [done |-> FALSE]

EnvIdleInit ==
  /\ envRemote = <<>>
  /\ envCache = <<>>
  /\ envExists = FALSE
  /\ envNow = TicksPerSecond
  /\ envLast = [op |-> "none"]
  /\ envSync = [pc |-> "idle"]

\* no station: a token the cache has no entry for, a query no station matches
NoStation == 0

\* the values BIRDWEATHER_STATION_ID takes: unset or empty, a numeric id, two
\* slugs
Tokens == {<<>>, <<"7">>, <<"a">>, <<"1", "a">>}

StationIdleInit ==
  /\ stationRemote = [t \in Tokens |-> NoStation]
  /\ stationCache = [t \in Tokens |-> NoStation]
  /\ stationLast = [op |-> "none"]

AggIdleInit ==
  /\ aggIn = [detections |-> <<>>, period_days |-> 0]
  /\ aggOut = [done |-> FALSE]

OthersIdleInit ==
  /\ AggIdleInit
  /\ ProbIdleInit /\ MetaIdleInit /\ gql = GqlIdle /\ EnvFetchIdleInit /\ EnvIdleInit
  /\ StationIdleInit

InitDetections == DetInit /\ FetchIdleInit /\ MergeIdleInit /\ OthersIdleInit

NextDetections ==
  \/ SyncBegin /\ UNCHANGED <<fetchVars, mergeVars, probVars, metaVars, gql, envOut, envVars, stationVars, aggVars>>
  \/ FetchPage /\ UNCHANGED <<fetchVars, mergeVars, probVars, metaVars, gql, envOut, envVars, stationVars, aggVars>>
  \/ RemoteArrive /\ UNCHANGED <<fetchVars, mergeVars, probVars, metaVars, gql, envOut, envVars, stationVars, aggVars>>

SpecDetections == InitDetections /\ [][NextDetections]_vars

(***************************************************************************)
(* get_detections on its own: every listing, page size, page cap and pair  *)
(* of boundaries within the bounds.                                        *)
(***************************************************************************)
FetchTs == {1, 2}
OptFetchTs == FetchTs \cup {NoneTs}
FetchRows == [id : {1, 2}, ts : FetchTs]

FetchInit ==
  /\ fetchArgs \in [listing : SeqsUpTo(FetchRows, MaxListing), more : BOOLEAN,
                     pageSize : 1..MaxPageSize, maxPages : 0..MaxPagesArg,
                     stop : OptFetchTs, earliest : OptFetchTs]
  /\ fetchOut = [done |-> FALSE]

GetDetections ==
  /\ ~fetchOut.done
  /\ fetchOut' = [done |-> TRUE] @@ get_detections(fetchArgs)
  /\ UNCHANGED fetchArgs

InitFetch == FetchInit /\ DetInit /\ MergeIdleInit /\ OthersIdleInit

NextFetch == GetDetections /\ UNCHANGED <<detVars, mergeVars, probVars, metaVars, gql, envOut, envVars, stationVars, aggVars>>

SpecFetch == InitFetch /\ [][NextFetch]_vars

(***************************************************************************)
(* The merge of sync_detections on its own: every cached table (sorted, as *)
(* the code writes it) and every fetched table within the bounds.          *)
(***************************************************************************)
MergeRows == [id : {1, 2, 3}, ts : Ts]

MergeInit ==
  /\ mergeIn \in [existing : {t \in SeqsUpTo(MergeRows, MaxMergeLen) : IsSortedByTs(t)},
                   new_data : SeqsUpTo(MergeRows, MaxMergeLen)]
  /\ mergeOut = [done |-> FALSE]

MergeDetections ==
  /\ ~mergeOut.done
  /\ \E combined \in merge_detections(mergeIn.existing, mergeIn.new_data) :
       mergeOut' = [done |-> TRUE, result |-> combined]
  /\ UNCHANGED mergeIn

InitMerge == MergeInit /\ DetInit /\ FetchIdleInit /\ OthersIdleInit

NextMerge == MergeDetections /\ UNCHANGED <<detVars, fetchVars, probVars, metaVars, gql, envOut, envVars, stationVars, aggVars>>

SpecMerge == InitMerge /\ [][NextMerge]_vars

(***************************************************************************)
(* fetch_data.get_species_probabilities and                                *)
(* data_store.sync_species_probabilities                                   *)
(***************************************************************************)
\* the file age, in days, under which the cache is returned as it is
ProbMaxAgeDays == 7

ProbSpeciesIds == {1, 2}
\* the arrays of weekly probabilities of the model (52 or 53 long in the
\* station's answers)
ProbWeekArrays == {<<>>, <<1>>, <<2>>, <<1, 2>>}
\* station.probabilities as the server returns it: per species, the array
\* of weekly probabilities
ProbEntries == [speciesId : ProbSpeciesIds, weeks : ProbWeekArrays]

\* the rows of one species: one per week, week being the index in the array,
\* counted from 0
WeekRows(sp) ==
  [i \in DOMAIN sp.weeks |->
     [speciesId |-> sp.speciesId, week |-> i - 1, probability |-> sp.weeks[i]]]

RECURSIVE ProbRowsFrom(_, _)
ProbRowsFrom(entries, i) ==
  IF i > Len(entries) THEN <<>>
  ELSE WeekRows(entries[i]) \o ProbRowsFrom(entries, i + 1)

\* one request; the nested arrays unpacked to a long table
get_species_probabilities(entries) == ProbRowsFrom(entries, 1)

\* (a variant whose threshold is a day short)
prob_cache_is_fresh_early(exists, age) == exists /\ age + 1 < ProbMaxAgeDays

\* the cached file exists and is younger than 7 days
prob_cache_is_fresh(exists, age) == exists /\ age < ProbMaxAgeDays

\* (a variant that merges the fetched rows into the cached ones)
prob_written_appended(cache, probs) == cache \o probs

\* what write_parquet leaves in the file: the fetched table alone
prob_written(cache, probs) == probs

SyncSpeciesProbabilities ==
  IF prob_cache_is_fresh(probExists, probAge)
  THEN /\ probLast' = [op |-> "sync", branch |-> "cached", requests |-> 0,
                       existed |-> probExists, existing |-> probCache,
                       age |-> probAge, fetched |-> <<>>,
                       returned |-> probCache]
       /\ UNCHANGED <<probRemote, probCache, probExists, probAge>>
  ELSE LET probs == get_species_probabilities(probRemote)
       IN /\ IF probs # <<>>
             THEN /\ probCache' = prob_written(probCache, probs)
                  /\ probExists' = TRUE
                  /\ probAge' = 0
             ELSE UNCHANGED <<probCache, probExists, probAge>>
          /\ probLast' = [op |-> "sync", branch |-> "fetch", requests |-> 1,
                          existed |-> probExists, existing |-> probCache,
                          age |-> probAge, fetched |-> probs,
                          returned |-> probs]
          /\ UNCHANGED probRemote

\* a day passes: the cache file, if there is one, is a day older
ProbDayPasses ==
  /\ probExists
  /\ probAge < MaxProbAge
  /\ probAge' = probAge + 1
  /\ probLast' = [op |-> "none"]
  /\ UNCHANGED <<probRemote, probCache, probExists>>

\* the station's probability model changes
ProbRemoteChange ==
  \E entries \in SeqsUpTo(ProbEntries, MaxProbSpecies) :
    /\ entries # probRemote
    /\ probRemote' = entries
    /\ probLast' = [op |-> "none"]
    /\ UNCHANGED <<probCache, probExists, probAge>>

InitProbs == OthersIdleInit /\ DetInit /\ FetchIdleInit /\ MergeIdleInit

NextProbs ==
  \/ SyncSpeciesProbabilities /\ UNCHANGED <<detVars, fetchVars, mergeVars, metaVars, gql, envOut, envVars, stationVars, aggVars>>
  \/ ProbDayPasses /\ UNCHANGED <<detVars, fetchVars, mergeVars, metaVars, gql, envOut, envVars, stationVars, aggVars>>
  \/ ProbRemoteChange /\ UNCHANGED <<detVars, fetchVars, mergeVars, metaVars, gql, envOut, envVars, stationVars, aggVars>>

SpecProbs == InitProbs /\ [][NextProbs]_vars

(***************************************************************************)
(* data_store.sync_species_meta, with fetch_data.get_top_species and the   *)
(* by-id lookup get_species_by_ids                                         *)
(***************************************************************************)
\* a null ebirdUrl
NullUrl == 0

SpeciesIds == 1..MaxSpecies
Urls == {NullUrl, 1}
\* a metadata row: the key and the column the sync logic reads
MetaRows == [speciesId : SpeciesIds, ebirdUrl : Urls]
\* what the remote side holds of a species: it is in the station's top
\* species ("top"), only in the species catalogue ("catalogue"), or unknown
\* ("none"); and its ebirdUrl
SpeciesStates ==
  {[where |-> "none", ebirdUrl |-> NullUrl]}
    \cup [where : {"top", "catalogue"}, ebirdUrl : Urls]

MetaIds(rows) == {rows[i].speciesId : i \in DOMAIN rows}

\* the rows of the species of ids for which keep(id) holds, by speciesId
RECURSIVE SpeciesRowsFrom(_, _, _)
SpeciesRowsFrom(rem, wanted, id) ==
  IF id > MaxSpecies THEN <<>>
  ELSE (IF id \in wanted
        THEN <<[speciesId |-> id, ebirdUrl |-> rem[id].ebirdUrl]>>
        ELSE <<>>) \o SpeciesRowsFrom(rem, wanted, id + 1)

\* station.topSpecies(limit: 1000): one row per species of the station
get_top_species(rem) ==
  SpeciesRowsFrom(rem, {id \in SpeciesIds : rem[id].where = "top"}, 1)

\* allSpecies(ids: [...]): the rows of those of the ids that the catalogue
\* knows
get_species_by_ids(rem, ids) ==
  SpeciesRowsFrom(rem, {id \in ids : rem[id].where # "none"}, 1)

\* DataFrame.unique(subset=["speciesId"]): one row per speciesId (keep is
\* left at "any" and maintain_order at False: which of several rows is kept
\* and in which order the rows come out is not defined).  The set of the
\* tables it may give: pick holds one index per speciesId, p orders them
RECURSIVE RowsAt(_, _, _)
RowsAt(rows, pick, i) ==
  IF i > Len(rows) THEN <<>>
  ELSE (IF i \in pick THEN <<rows[i]>> ELSE <<>>) \o RowsAt(rows, pick, i + 1)

unique_species(rows) ==
  UNION {LET kept == RowsAt(rows, pick, 1)
         IN {[i \in DOMAIN kept |-> kept[p[i]]] : p \in IndexPerms(Len(kept))} :
           pick \in {q \in SUBSET DOMAIN rows :
                       /\ \A i \in DOMAIN rows : \E k \in q : rows[k].speciesId = rows[i].speciesId
                       /\ \A i, k \in q : rows[i].speciesId = rows[k].speciesId => i = k}}

\* (a variant that looks only for species without a cached row)
missing_species_uncached(detection_species_ids, exists, existing) ==
  detection_species_ids \ (IF exists /\ existing # <<>> THEN MetaIds(existing) ELSE {})

\* the species to look up: those of the detections with no cached row, and
\* the cached ones whose ebirdUrl is null
missing_species(detection_species_ids, exists, existing) ==
  LET cached_species_ids == IF exists /\ existing # <<>> THEN MetaIds(existing) ELSE {}
      null_url_ids == IF exists /\ existing # <<>>
                      THEN {existing[i].speciesId :
                              i \in {k \in DOMAIN existing : existing[k].ebirdUrl = NullUrl}}
                      ELSE {}
  IN (detection_species_ids \ cached_species_ids) \cup null_url_ids

\* meta after the bulk answer api_species: the set of its possible values
meta_after_top(api_species, exists, existing) ==
  IF api_species # <<>> THEN unique_species(api_species)
  ELSE IF exists /\ existing # <<>> THEN {existing}
  ELSE {<<>>}

\* meta after the by-id answer extra_meta: the set of its possible values
meta_after_by_id(meta, extra_meta) ==
  IF extra_meta # <<>> THEN unique_species(meta \o extra_meta) ELSE {meta}

MetaSyncIdle == [pc |-> "idle"]

\* sync_species_meta(station_id, detections) is called for detections of the
\* given species and runs up to its second request: it reads the cache and,
\* in the re-fetch branch, gets the bulk answer; if that answer covers the
\* detections the file is written and the call returns, else the call goes
\* on to the by-id request
SyncSpeciesMetaWith(detection_species_ids) ==
    LET missing == missing_species(detection_species_ids, metaExists, metaCache)
        \* tells a call from the call before it
        turn == IF metaLast.op = "sync" THEN 1 - metaLast.turn ELSE 0
        call == [op |-> "sync", turn |-> turn,
                 detections |-> detection_species_ids, missing |-> missing,
                 existed |-> metaExists, existing |-> metaCache]
    IN /\ metaSync.pc = "idle"
       /\ IF missing # {} \/ ~metaExists \/ metaCache = <<>>
          THEN \E meta \in meta_after_top(get_top_species(speciesRemote),
                                           metaExists, metaCache) :
                 LET still_missing == detection_species_ids \ MetaIds(meta)
                 IN IF still_missing = {}
                    THEN /\ metaCache' = meta
                         /\ metaExists' = TRUE
                         /\ metaLast' = call @@ [branch |-> "refetch", topRequests |-> 1,
                                                 byIdRequests |-> 0, wrote |-> TRUE,
                                                 returned |-> meta]
                         /\ UNCHANGED <<speciesRemote, metaSync>>
                    ELSE /\ metaSync' = [pc |-> "by_id", call |-> call, meta |-> meta,
                                         still_missing |-> still_missing]
                         /\ UNCHANGED <<speciesRemote, metaCache, metaExists, metaLast>>
          ELSE /\ metaLast' = call @@ [branch |-> "cached", topRequests |-> 0,
                                       byIdRequests |-> 0, wrote |-> FALSE,
                                       returned |-> metaCache]
               /\ UNCHANGED <<speciesRemote, metaCache, metaExists, metaSync>>

\* the by-id request of the running call is answered; the merge and the
\* write of the file follow with nothing in between
SyncSpeciesMetaById ==
  /\ metaSync.pc = "by_id"
  /\ \E meta \in meta_after_by_id(metaSync.meta,
                                    get_species_by_ids(speciesRemote, metaSync.still_missing)) :
       /\ metaCache' = meta
       /\ metaExists' = TRUE
       /\ metaLast' = metaSync.call @@ [branch |-> "refetch", topRequests |-> 1,
                                        byIdRequests |-> 1, wrote |-> TRUE,
                                        returned |-> meta]
       /\ metaSync' = MetaSyncIdle
       /\ UNCHANGED speciesRemote

SyncSpeciesMeta ==
  \E detection_species_ids \in SUBSET SpeciesIds :
    SyncSpeciesMetaWith(detection_species_ids)

\* the remote side changes what it holds of one species, between calls or
\* between the two requests of a running one
SpeciesRemoteChange ==
  \E id \in SpeciesIds, st \in SpeciesStates :
    /\ st # speciesRemote[id]
    /\ speciesRemote' = [speciesRemote EXCEPT ![id] = st]
    /\ metaLast' = [op |-> "none"]
    /\ UNCHANGED <<metaCache, metaExists, metaSync>>

InitMeta == OthersIdleInit /\ DetInit /\ FetchIdleInit /\ MergeIdleInit

NextMeta ==
  \/ SyncSpeciesMeta /\ UNCHANGED <<detVars, fetchVars, mergeVars, probVars, gql, envOut, envVars, stationVars, aggVars>>
  \/ SyncSpeciesMetaById /\ UNCHANGED <<detVars, fetchVars, mergeVars, probVars, gql, envOut, envVars, stationVars, aggVars>>
  \/ SpeciesRemoteChange /\ UNCHANGED <<detVars, fetchVars, mergeVars, probVars, gql, envOut, envVars, stationVars, aggVars>>

SpecMeta == InitMeta /\ [][NextMeta]_vars

(***************************************************************************)
(* sync_species_meta called again and again with the same detections,      *)
(* against remote metadata that does not change                            *)
(***************************************************************************)
MetaFixedInit ==
  /\ speciesRemote \in [SpeciesIds -> SpeciesStates]
  /\ metaCache = <<>>
  /\ metaExists = FALSE
  /\ metaLast = [op |-> "none"]
  /\ metaSync = [pc |-> "idle"]

\* the first call takes any detections, every later call the same ones
SyncSpeciesMetaAgain ==
  \E detection_species_ids \in SUBSET SpeciesIds :
    /\ metaLast.op = "sync" => detection_species_ids = metaLast.detections
    /\ SyncSpeciesMetaWith(detection_species_ids)

InitMetaRepeat ==
  /\ MetaFixedInit
  /\ AggIdleInit /\ ProbIdleInit /\ gql = GqlIdle /\ EnvFetchIdleInit
  /\ EnvIdleInit /\ StationIdleInit /\ DetInit /\ FetchIdleInit /\ MergeIdleInit

NextMetaRepeat ==
  \/ SyncSpeciesMetaAgain
       /\ UNCHANGED <<detVars, fetchVars, mergeVars, probVars, gql, envOut, envVars, stationVars, aggVars>>
  \/ SyncSpeciesMetaById
       /\ UNCHANGED <<detVars, fetchVars, mergeVars, probVars, gql, envOut, envVars, stationVars, aggVars>>

\* the caller goes on calling
SpecMetaRepeat ==
  InitMetaRepeat /\ [][NextMetaRepeat]_vars /\ WF_vars(NextMetaRepeat)

(***************************************************************************)
(* fetch_data.query_graphql                                                *)
(***************************************************************************)
\* the two exceptions the retry loop catches
TransportErrors == {"Timeout", "ConnectionError"}
\* the data of a successful response
GqlData == {1, 2}
\* the errors payload of a response that carries one
GqlErrorPayloads == {1, 2}

\* (a variant whose wait grows linearly)
backoff_wait_linear(attempt) == 2 * attempt

\* wait = 2 ** attempt
backoff_wait(attempt) == 2 ^ attempt

\* query_graphql(query, variables, retries) is called; with an empty
\* range(retries) the loop body never runs and the function returns None
GqlCall ==
  \E retries \in 0..MaxRetries :
    /\ gql.pc = "idle"
    /\ gql' = IF retries = 0
              THEN [GqlIdle EXCEPT !.pc = "done"]
              ELSE [GqlIdle EXCEPT !.pc = "run", !.retries = retries]

\* the attempt's response is a 2xx without "errors": return result["data"]
GqlSucceed ==
  \E data \in GqlData :
    /\ gql.pc = "run"
    /\ gql' = [gql EXCEPT !.pc = "done",
                           !.posts = @ + 1,
                           !.log = Append(@, [kind |-> "data", value |-> data]),
                           !.result = [kind |-> "data", value |-> data]]

\* requests.post raises Timeout or ConnectionError: sleep and go on to the
\* next attempt, or re-raise on the last one
GqlTransportError ==
  \E e \in TransportErrors :
    /\ gql.pc = "run"
    /\ gql' = IF gql.attempt < gql.retries - 1
              THEN [gql EXCEPT !.posts = @ + 1,
                               !.log = Append(@, [kind |-> e, value |-> 0]),
                               !.waits = Append(@, backoff_wait(gql.attempt)),
                               !.attempt = @ + 1]
              ELSE [gql EXCEPT !.pc = "done",
                               !.posts = @ + 1,
                               !.log = Append(@, [kind |-> e, value |-> 0]),
                               !.result = [kind |-> e, value |-> 0]]

\* (a variant that treats the errors payload like a transport error)
GqlGraphqlErrorRetried ==
  \E errors \in GqlErrorPayloads :
    /\ gql.pc = "run"
    /\ gql' = IF gql.attempt < gql.retries - 1
              THEN [gql EXCEPT !.posts = @ + 1,
                               !.log = Append(@, [kind |-> "errors", value |-> errors]),
                               !.waits = Append(@, backoff_wait(gql.attempt)),
                               !.attempt = @ + 1]
              ELSE [gql EXCEPT !.pc = "done",
                               !.posts = @ + 1,
                               !.log = Append(@, [kind |-> "errors", value |-> errors]),
                               !.result = [kind |-> "RuntimeError", value |-> errors]]

\* the response carries "errors": RuntimeError, which the loop does not catch
GqlGraphqlError ==
  \E errors \in GqlErrorPayloads :
    /\ gql.pc = "run"
    /\ gql' = [gql EXCEPT !.pc = "done",
                           !.posts = @ + 1,
                           !.log = Append(@, [kind |-> "errors", value |-> errors]),
                           !.result = [kind |-> "RuntimeError", value |-> errors]]

\* raise_for_status raises HTTPError, which the loop does not catch
GqlHttpError ==
  /\ gql.pc = "run"
  /\ gql' = [gql EXCEPT !.pc = "done",
                         !.posts = @ + 1,
                         !.log = Append(@, [kind |-> "HTTPError", value |-> 0]),
                         !.result = [kind |-> "HTTPError", value |-> 0]]

InitGql == OthersIdleInit /\ DetInit /\ FetchIdleInit /\ MergeIdleInit

NextGql ==
  \/ GqlCall /\ UNCHANGED <<detVars, fetchVars, mergeVars, probVars, metaVars, envOut, envVars, stationVars, aggVars>>
  \/ GqlSucceed /\ UNCHANGED <<detVars, fetchVars, mergeVars, probVars, metaVars, envOut, envVars, stationVars, aggVars>>
  \/ GqlTransportError /\ UNCHANGED <<detVars, fetchVars, mergeVars, probVars, metaVars, envOut, envVars, stationVars, aggVars>>
  \/ GqlGraphqlError /\ UNCHANGED <<detVars, fetchVars, mergeVars, probVars, metaVars, envOut, envVars, stationVars, aggVars>>
  \/ GqlHttpError /\ UNCHANGED <<detVars, fetchVars, mergeVars, probVars, metaVars, envOut, envVars, stationVars, aggVars>>

SpecGql == InitGql /\ [][NextGql]_vars

(***************************************************************************)
(* fetch_data.get_environment_history                                      *)
(***************************************************************************)
\* a sensor reading: its timestamp and one value standing for the sensor
\* fields
EnvVals == {1, 2}

\* the server's filter period: {from, to} (None: no filter)
EnvInPeriod(reading, from, to) ==
  /\ from # NoneTs => reading.ts >= from
  /\ to # NoneTs => reading.ts <= to

RECURSIVE EnvFilter(_, _, _)
EnvFilter(listing, from, to) ==
  IF listing = <<>> THEN <<>>
  ELSE (IF EnvInPeriod(Head(listing), from, to) THEN <<Head(listing)>> ELSE <<>>)
         \o EnvFilter(Tail(listing), from, to)

\* (a variant whose loop runs one page beyond the cap)
env_loop_continues_late(pageNum, maxPages, hasNext) ==
  hasNext /\ pageNum <= maxPages

\* after the page numbered pageNum (from 1): the loop goes on when the page
\* reports a next page and range(max_pages) is not exhausted
env_loop_continues(pageNum, maxPages, hasNext) ==
  hasNext /\ pageNum < maxPages

\* the state of the page loop before its first iteration
EnvLoopStart(maxPages) ==
  [pageNum |-> 0, cursor |-> 0, allNodes |-> <<>>, requests |-> 0,
   done |-> maxPages <= 0]

\* one iteration of `for _ in range(max_pages)`: one page request against
\* the listing (the readings of the period, as they are when the request
\* arrives).  a: [more, pageSize, maxPages]; done says that the loop has
\* ended
env_page_request(listing, a, st) ==
  LET nodes == PageNodes(listing, st.cursor, a.pageSize)
      hasNext == HasNextPage(listing, st.cursor, a.pageSize, a.more)
  IN [pageNum |-> st.pageNum + 1,
      cursor |-> st.cursor + Len(nodes),
      allNodes |-> st.allNodes \o nodes,
      requests |-> st.requests + 1,
      done |-> ~env_loop_continues(st.pageNum + 1, a.maxPages, hasNext)]

RECURSIVE EnvHistoryLoop(_, _, _)
EnvHistoryLoop(listing, a, st) ==
  IF st.done THEN st
  ELSE EnvHistoryLoop(listing, a, env_page_request(listing, a, st))

\* get_environment_history against a listing that does not change while it
\* runs.  a: [listing, more, pageSize, maxPages, from, to]; the result is
\* the readings in the order received and the number of page requests
get_environment_history(a) ==
  LET st == EnvHistoryLoop(EnvFilter(a.listing, a.from, a.to), a,
                           EnvLoopStart(a.maxPages))
  IN [rows |-> st.allNodes, requests |-> st.requests]

(***************************************************************************)
(* data_store.sync_environment                                             *)
(***************************************************************************)
EnvReadings == [ts : 1..MaxEnvNow, val : EnvVals]

\* strftime("%Y-%m-%dT%H:%M:%SZ"): the instant cut to whole seconds
strftime_seconds(t) == (t \div TicksPerSecond) * TicksPerSecond

\* the period of the incremental fetch: from one second after the newest
\* cached reading, to now
env_period(existing, now) ==
  [from |-> strftime_seconds(MaxTimestamp(existing) + TicksPerSecond),
   to |-> strftime_seconds(now)]

\* DataFrame.unique(subset=["timestamp"], keep="last"): for every timestamp
\* the row of its last occurrence, in the order of those occurrences
unique_timestamp_keep_last(rows) ==
  LET keep == {i \in DOMAIN rows : \A j \in DOMAIN rows : j > i => rows[j].ts # rows[i].ts}
      RECURSIVE Pick(_)
      Pick(i) == IF i > Len(rows) THEN <<>>
                 ELSE (IF i \in keep THEN <<rows[i]>> ELSE <<>>) \o Pick(i + 1)
  IN Pick(1)

\* the three branches of the merge: the set of tables it may produce
merge_environment(exists, existing, new_data) ==
  IF exists /\ existing # <<>>
  THEN IF new_data # <<>>
       THEN sort_timestamp(unique_timestamp_keep_last(existing \o new_data))
       ELSE {existing}
  ELSE IF new_data # <<>> THEN sort_timestamp(new_data) ELSE {new_data}

EnvSyncIdle == [pc |-> "idle"]

\* sync_environment is called: it reads the cache file and the clock, and
\* fixes the period of the fetch
SyncEnvironment ==
  LET period == IF envExists /\ envCache # <<>>
                THEN env_period(envCache, envNow)
                ELSE [from |-> NoneTs, to |-> NoneTs]
  IN /\ envSync.pc = "idle"
     /\ envSync' = [pc |-> "fetch", existed |-> envExists, existing |-> envCache,
                    period |-> period, st |-> EnvLoopStart(EnvMaxPages)]
     /\ UNCHANGED <<envRemote, envCache, envExists, envNow, envLast>>

\* one page request of the running get_environment_history; the page that
\* ends the loop is followed, with nothing in between, by the merge and the
\* write of the cache file
EnvFetchPage ==
  /\ envSync.pc = "fetch"
  /\ ~envSync.st.done
  /\ LET a == [more |-> FALSE, pageSize |-> EnvPageSize, maxPages |-> EnvMaxPages]
         st == env_page_request(
                 EnvFilter(envRemote, envSync.period.from, envSync.period.to),
                 a, envSync.st)
     IN IF ~st.done
        THEN /\ envSync' = [envSync EXCEPT !.st = st]
             /\ UNCHANGED <<envRemote, envCache, envExists, envNow, envLast>>
        ELSE \E combined \in merge_environment(envSync.existed, envSync.existing,
                                                st.allNodes) :
               /\ envCache' = IF combined # <<>> THEN combined ELSE envCache
               /\ envExists' = (envExists \/ combined # <<>>)
               /\ envLast' = [op |-> "sync", existed |-> envSync.existed,
                              existing |-> envSync.existing,
                              period |-> envSync.period, fetched |-> st.allNodes,
                              requests |-> st.requests, returned |-> combined]
               /\ envSync' = EnvSyncIdle
               /\ UNCHANGED <<envRemote, envNow>>

\* the station records a reading; the listing serves readings in the order
\* recorded.  This happens between syncs and between the page requests of
\* a running one.
EnvArrive ==
  \E r \in EnvReadings :
    /\ Len(envRemote) < MaxEnvListing
    /\ r.ts <= envNow
    /\ envRemote' = Append(envRemote, r)
    /\ envLast' = [op |-> "none"]
    /\ UNCHANGED <<envCache, envExists, envNow, envSync>>

EnvTick ==
  /\ envNow < MaxEnvNow
  /\ envNow' = envNow + 1
  /\ envLast' = [op |-> "none"]
  /\ UNCHANGED <<envRemote, envCache, envExists, envSync>>

InitEnv == OthersIdleInit /\ DetInit /\ FetchIdleInit /\ MergeIdleInit

NextEnv ==
  \/ SyncEnvironment /\ UNCHANGED <<detVars, fetchVars, mergeVars, probVars, metaVars, gql, envOut, stationVars, aggVars>>
  \/ EnvFetchPage /\ UNCHANGED <<detVars, fetchVars, mergeVars, probVars, metaVars, gql, envOut, stationVars, aggVars>>
  \/ EnvArrive /\ UNCHANGED <<detVars, fetchVars, mergeVars, probVars, metaVars, gql, envOut, stationVars, aggVars>>
  \/ EnvTick /\ UNCHANGED <<detVars, fetchVars, mergeVars, probVars, metaVars, gql, envOut, stationVars, aggVars>>

SpecEnv == InitEnv /\ [][NextEnv]_vars

(***************************************************************************)
(* The two paginated fetches on their own, over the same listings, page    *)
(* sizes and page caps                                                     *)
(***************************************************************************)
\* the call of get_environment_history that pages through the listing of
\* fetchArgs, without a period
EnvArgsOf(a) ==
  [listing |-> [i \in DOMAIN a.listing |-> [ts |-> a.listing[i].ts, val |-> a.listing[i].id]],
   more |-> a.more, pageSize |-> a.pageSize, maxPages |-> a.maxPages,
   from |-> NoneTs, to |-> NoneTs]

GetEnvironmentHistory ==
  /\ ~envOut.done
  /\ envOut' = [done |-> TRUE] @@ get_environment_history(EnvArgsOf(fetchArgs))
  /\ UNCHANGED <<fetchArgs, fetchOut>>

InitPaging == FetchInit /\ DetInit /\ MergeIdleInit /\ OthersIdleInit

NextPaging ==
  \/ GetDetections /\ UNCHANGED <<detVars, mergeVars, probVars, metaVars, gql, envOut, envVars, stationVars, aggVars>>
  \/ GetEnvironmentHistory /\ UNCHANGED <<detVars, mergeVars, probVars, metaVars, gql, envVars, stationVars, aggVars>>

SpecPaging == InitPaging /\ [][NextPaging]_vars

(***************************************************************************)
(* fetch_data.get_station_id and fetch_data.resolve_station_numeric_id     *)
(***************************************************************************)
Digits == {"0", "1", "2", "7"}

\* str.isdigit(): not empty, and every character a digit
isdigit(token) == token # <<>> /\ \A i \in DOMAIN token : token[i] \in Digits

\* str(nodes[0]["id"])
StrOfId(id) == IF id = 1 THEN <<"1">> ELSE IF id = 2 THEN <<"2">> ELSE <<"7">>

\* (a variant that never finds the token in the cache)
station_cache_hit_never(token, cache) == FALSE

\* token in _station_numeric_id_cache
station_cache_hit(token, cache) == cache[token] # NoStation

\* resolve_station_numeric_id(token) with the cache as it is and the answer
\* of the lookup, if one is made: query_graphql raises (failed), or answer
\* is the id of the first matching station, NoStation if nodes is empty.
\* The result: what is returned or raised, the requests issued, the cache
resolve_station_numeric_id(token, cache, failed, answer) ==
  IF station_cache_hit(token, cache)
  THEN [kind |-> "ok", value |-> StrOfId(cache[token]), requests |-> 0, cache |-> cache]
  ELSE IF failed
  THEN [kind |-> "TransportError", value |-> <<>>, requests |-> 1, cache |-> cache]
  ELSE IF answer = NoStation
  THEN [kind |-> "ValueError", value |-> <<>>, requests |-> 1, cache |-> cache]
  ELSE [kind |-> "ok", value |-> StrOfId(answer), requests |-> 1,
        cache |-> [cache EXCEPT ![token] = answer]]

\* get_station_id() with BIRDWEATHER_STATION_ID = token
get_station_id(token, cache, failed, answer) ==
  IF token = <<>>
  THEN [kind |-> "ValueError", value |-> <<>>, requests |-> 0, cache |-> cache]
  ELSE IF isdigit(token)
  THEN [kind |-> "ok", value |-> token, requests |-> 0, cache |-> cache]
  ELSE resolve_station_numeric_id(token, cache, failed, answer)

GetStationId ==
  \E token \in Tokens, failed \in BOOLEAN :
    LET answer == stationRemote[token]
        out == get_station_id(token, stationCache, failed, answer)
    IN /\ stationCache' = out.cache
       /\ stationLast' = [op |-> "resolve", token |-> token,
                          failed |-> failed, answer |-> answer,
                          cacheBefore |-> stationCache,
                          kind |-> out.kind, value |-> out.value,
                          requests |-> out.requests]
       /\ UNCHANGED stationRemote

\* a station takes, changes or gives up a slug
StationRemoteChange ==
  \E t \in Tokens, id \in 0..MaxStationId :
    /\ t # <<>>
    /\ ~isdigit(t)
    /\ id # stationRemote[t]
    /\ stationRemote' = [stationRemote EXCEPT ![t] = id]
    /\ stationLast' = [op |-> "none"]
    /\ UNCHANGED stationCache

InitStation == OthersIdleInit /\ DetInit /\ FetchIdleInit /\ MergeIdleInit

NextStation ==
  \/ GetStationId /\ UNCHANGED <<detVars, fetchVars, mergeVars, probVars, metaVars, gql, envOut, envVars, aggVars>>
  \/ StationRemoteChange /\ UNCHANGED <<detVars, fetchVars, mergeVars, probVars, metaVars, gql, envOut, envVars, aggVars>>

SpecStation == InitStation /\ [][NextStation]_vars

(***************************************************************************)
(* Local aggregations: the detections they are given                       *)
(***************************************************************************)
\* timestamps count hours
HoursPerDay == 24
\* period_days = None
NoPeriod == 0 - 1

\* timestamps of detections (two days, three hours of day), and the clock
\* readings of datetime.now at the call
AggTs == {1, 23, 25}
AggNows == {49, 50}
AggRows == [ts : AggTs, speciesId : {1, 2}, commonName : {"a", "b"}]
PeriodDays == {NoPeriod} \cup 1..MaxPeriodDays

AggInit ==
  /\ aggIn \in [detections : SeqsUpTo(AggRows, MaxAggLen), period_days : PeriodDays]
  /\ aggOut = [done |-> FALSE]

\* dt.date(), dt.ordinal_day() and dt.hour() of a timestamp
DateOf(ts) == ts \div HoursPerDay
OrdinalDay(date) == date + 1
HourOf(ts) == ts % HoursPerDay

\* df.filter(pl.col("timestamp") >= cutoff), cutoff = now - period_days:
\* the indices of the detections kept
period_kept(detections, period_days, now) ==
  IF period_days = NoPeriod THEN DOMAIN detections
  ELSE {i \in DOMAIN detections : detections[i].ts >= now - period_days * HoursPerDay}

\* pl.col("count").sum() over a set of group rows
RECURSIVE SumCount(_)
SumCount(groups) ==
  IF groups = {} THEN 0
  ELSE LET g == CHOOSE x \in groups : TRUE
       IN g.count + SumCount(groups \ {g})

\* the orders in which a sort may leave the rows of a set: before holds the
\* pairs <<a, b>> of rows of which a must come before b
SortedSeqsOf(rows, before) ==
  {q \in [1..Cardinality(rows) -> rows] :
     /\ \A i, j \in DOMAIN q : q[i] = q[j] => i = j
     /\ \A i, j \in DOMAIN q : i < j => <<q[j], q[i]>> \notin before}

(***************************************************************************)
(* data_store.compute_daily_detection_counts                               *)
(***************************************************************************)
\* (a variant whose daily total counts the species rows of the date)
daily_total_of_rows(species_daily, date) ==
  Cardinality({g \in species_daily : g.date = date})

\* daily_totals: the sum of the species counts of a date
daily_total(species_daily, date) ==
  SumCount({g \in species_daily : g.date = date})

\* the set of tables it may return (the sort leaves ties in any order)
compute_daily_detection_counts(detections, period_days, now) ==
  LET kept == IF detections = <<>> THEN {} ELSE period_kept(detections, period_days, now)
      keys == {[date |-> DateOf(detections[i].ts),
                speciesId |-> detections[i].speciesId,
                commonName |-> detections[i].commonName] : i \in kept}
      species_daily ==
        {[date |-> k.date, speciesId |-> k.speciesId, commonName |-> k.commonName,
          count |-> Cardinality({i \in kept :
                                   /\ DateOf(detections[i].ts) = k.date
                                   /\ detections[i].speciesId = k.speciesId
                                   /\ detections[i].commonName = k.commonName})] : k \in keys}
      result ==
        {[date |-> g.date, dayOfYear |-> OrdinalDay(g.date),
          dailyTotal |-> daily_total(species_daily, g.date),
          speciesId |-> g.speciesId, commonName |-> g.commonName,
          count |-> g.count] : g \in species_daily}
      Before(a, b) == \/ a.date < b.date
                      \/ a.date = b.date /\ a.commonName = "a" /\ b.commonName = "b"
  IN SortedSeqsOf(result, {p \in result \X result : Before(p[1], p[2])})

ComputeDailyDetectionCounts ==
  \E now \in AggNows :
    \E result \in compute_daily_detection_counts(aggIn.detections, aggIn.period_days, now) :
      /\ ~aggOut.done
      /\ aggOut' = [done |-> TRUE, op |-> "daily", now |-> now, result |-> result]
      /\ UNCHANGED aggIn

InitDaily == AggInit /\ ProbIdleInit /\ MetaIdleInit /\ gql = GqlIdle /\ EnvFetchIdleInit
             /\ EnvIdleInit /\ StationIdleInit /\ DetInit /\ FetchIdleInit /\ MergeIdleInit

NextDaily ==
  ComputeDailyDetectionCounts
    /\ UNCHANGED <<detVars, fetchVars, mergeVars, probVars, metaVars, gql, envOut, envVars, stationVars>>

SpecDaily == InitDaily /\ [][NextDaily]_vars

(***************************************************************************)
(* data_store.compute_time_of_day_counts                                   *)
(***************************************************************************)
\* (a variant whose totals are taken per species and name)
species_total_per_name(hourly, g) ==
  SumCount({h \in hourly : h.speciesId = g.speciesId /\ h.commonName = g.commonName})

\* species_totals joined on speciesId: the sum of the hourly counts of the
\* species of the row g
species_total(hourly, g) ==
  SumCount({h \in hourly : h.speciesId = g.speciesId})

\* the set of tables it may return (the sort leaves ties in any order)
compute_time_of_day_counts(detections) ==
  LET keys == {[speciesId |-> detections[i].speciesId,
                commonName |-> detections[i].commonName,
                hour |-> HourOf(detections[i].ts)] : i \in DOMAIN detections}
      hourly ==
        {[speciesId |-> k.speciesId, commonName |-> k.commonName, hour |-> k.hour,
          count |-> Cardinality({i \in DOMAIN detections :
                                   /\ detections[i].speciesId = k.speciesId
                                   /\ detections[i].commonName = k.commonName
                                   /\ HourOf(detections[i].ts) = k.hour})] : k \in keys}
      result ==
        {[speciesId |-> g.speciesId, commonName |-> g.commonName,
          totalCount |-> species_total(hourly, g),
          hour |-> g.hour, count |-> g.count] : g \in hourly}
      Before(a, b) == \/ a.speciesId < b.speciesId
                      \/ a.speciesId = b.speciesId /\ a.hour < b.hour
  IN SortedSeqsOf(result, {p \in result \X result : Before(p[1], p[2])})

ComputeTimeOfDayCounts ==
  \E result \in compute_time_of_day_counts(aggIn.detections) :
    /\ ~aggOut.done
    /\ aggOut' = [done |-> TRUE, op |-> "time_of_day", result |-> result]
    /\ UNCHANGED aggIn

NextTimeOfDay ==
  ComputeTimeOfDayCounts
    /\ UNCHANGED <<detVars, fetchVars, mergeVars, probVars, metaVars, gql, envOut, envVars, stationVars>>

SpecTimeOfDay == InitDaily /\ [][NextTimeOfDay]_vars

(***************************************************************************)
(* data_store.compute_top_species                                          *)
(***************************************************************************)
\* the schema of the explicit zero-row result, and col_order
TopSpeciesColumns ==
  <<"speciesId", "commonName", "scientificName",
    "imageUrl", "thumbnailUrl", "color", "ebirdUrl", "wikipediaSummary",
    "count", "almostCertain", "veryLikely", "uncertain", "unlikely",
    "averageProbability">>

\* the columns of agg, in the order of its expressions
AggColumns ==
  <<"speciesId", "count", "averageProbability", "commonName", "scientificName",
    "almostCertain", "veryLikely", "uncertain", "unlikely">>

EnsuredColumns == <<"imageUrl", "thumbnailUrl", "color", "ebirdUrl", "wikipediaSummary">>

\* the species_meta tables handed in: their columns, and the speciesId of
\* their rows
TopSpeciesMetas ==
  {[columns |-> <<>>, ids |-> <<>>],
   [columns |-> <<"speciesId", "commonName", "scientificName", "imageUrl",
                  "thumbnailUrl", "color", "ebirdUrl", "wikipediaSummary">>,
    ids |-> <<1, 2>>],
   [columns |-> <<"speciesId", "imageUrl">>, ids |-> <<1, 1>>],
   [columns |-> <<"speciesId", "commonName", "count", "ebirdUrl">>, ids |-> <<>>]}

TopSpeciesLimits == {1, 2}

SeqHas(q, x) == \E i \in DOMAIN q : q[i] = x

\* the columns of agg.join(species_meta.select(meta_cols), on="speciesId",
\* how="left"): a right column whose name the left table has gets the
\* suffix _right
joined_columns(meta_columns) ==
  LET meta_cols == SelectSeq(meta_columns,
                             LAMBDA c : c \notin {"commonName", "scientificName"})
      right == SelectSeq(meta_cols, LAMBDA c : c # "speciesId")
  IN AggColumns \o [i \in DOMAIN right |->
                      IF SeqHas(AggColumns, right[i]) THEN right[i] \o "_right"
                      ELSE right[i]]

\* (a variant that adds no column)
ensure_columns_skipped(columns) == columns

\* every expected metadata column that is absent is added
ensure_columns(columns) ==
  columns \o SelectSeq(EnsuredColumns, LAMBDA c : ~SeqHas(columns, c))

\* result.select([c for c in col_order if c in result.columns])
ordered_columns(columns) ==
  SelectSeq(TopSpeciesColumns, LAMBDA c : SeqHas(columns, c))

\* the rows of the join: every row of agg once for each metadata row of its
\* species, once if there is none
RECURSIVE JoinRows(_, _)
JoinRows(agg, ids) ==
  IF agg = <<>> THEN <<>>
  ELSE LET n == Cardinality({i \in DOMAIN ids : ids[i] = Head(agg).speciesId})
       IN [i \in 1..(IF n = 0 THEN 1 ELSE n) |-> Head(agg)] \o JoinRows(Tail(agg), ids)

\* the set of outcomes: a table (its columns, and of its rows the species,
\* the count and the first commonName), or the error of a join with a
\* metadata table that has no speciesId column
compute_top_species(detections, species_meta, period_days, now, limit) ==
  LET kept == IF detections = <<>> THEN {} ELSE period_kept(detections, period_days, now)
      species == {detections[i].speciesId : i \in kept}
      of(sp) == {i \in kept : detections[i].speciesId = sp}
      groups == {[speciesId |-> sp, count |-> Cardinality(of(sp)),
                  commonName |->
                    detections[CHOOSE i \in of(sp) : \A j \in of(sp) : i <= j].commonName] :
                   sp \in species}
      Before(a, b) == a.count > b.count
  IN IF kept = {}
     THEN {[kind |-> "ok", columns |-> TopSpeciesColumns, rows |-> <<>>]}
     ELSE IF ~SeqHas(species_meta.columns, "speciesId")
     THEN {[kind |-> "ColumnNotFoundError", columns |-> <<>>, rows |-> <<>>]}
     ELSE {[kind |-> "ok",
            columns |-> ordered_columns(ensure_columns(joined_columns(species_meta.columns))),
            rows |-> JoinRows(SubSeq(sorted, 1, Min(limit, Len(sorted))), species_meta.ids)] :
             sorted \in SortedSeqsOf(groups, {p \in groups \X groups : Before(p[1], p[2])})}

ComputeTopSpecies ==
  \E now \in AggNows, species_meta \in TopSpeciesMetas, limit \in TopSpeciesLimits :
    \E out \in compute_top_species(aggIn.detections, species_meta, aggIn.period_days,
                                     now, limit) :
      /\ ~aggOut.done
      /\ aggOut' = [done |-> TRUE, op |-> "top", now |-> now,
                    species_meta |-> species_meta, limit |-> limit,
                    kind |-> out.kind, columns |-> out.columns, result |-> out.rows]
      /\ UNCHANGED aggIn

NextTopSpecies ==
  ComputeTopSpecies
    /\ UNCHANGED <<detVars, fetchVars, mergeVars, probVars, metaVars, gql, envOut, envVars, stationVars>>

SpecTopSpecies == InitDaily /\ [][NextTopSpecies]_vars

(***************************************************************************)
(* Detections: properties                                                  *)
(***************************************************************************)
NoDuplicateIds(rows) ==
  \A i, j \in DOMAIN rows : rows[i].id = rows[j].id => i = j

\* C1: the persisted detection cache never holds two rows with the same id,
\* and its rows are in non-decreasing timestamp order, after any sequence
\* of syncs against any listing.
C1_CacheUniqueAndSorted ==
  NoDuplicateIds(detCache) /\ IsSortedByTs(detCache)

\* the part of C1 that the code keeps: the cache is always sorted
C1_CacheSorted == IsSortedByTs(detCache)

\* C2: a sync that directly follows a sync with the same earliest boundary,
\* the listing unchanged since the first of the two began, leaves the cache
\* with the same rows in the same order (and writes no file where there was
\* none).
C2_RepeatedSyncIdempotent ==
  (detLast.op = "sync" /\ detLast.repeat) =>
    (detCache = detLast.existing /\ detExists = detLast.existed)

C2_Witness ==
  /\ detLast.op = "sync"
  /\ detLast.repeat
  /\ Len(detCache) >= 2
  /\ ~(RowIds(remote) \subseteq RowIds(detCache))

\* C4: when the cache and the fetch are both non-empty, the merged table
\* has exactly one row per id of the union of both sides and nothing else,
\* is sorted by timestamp, and keeps for every id the last row carrying it
\* in cache-then-fetch order (the fetched row for an id on both sides).
C4_MergeUnionLastWins ==
  (mergeOut.done /\ mergeIn.existing # <<>> /\ mergeIn.new_data # <<>>) =>
    LET ex == mergeIn.existing
        nw == mergeIn.new_data
        cat == ex \o nw
        r == mergeOut.result
    IN /\ RowIds(r) = RowIds(ex) \cup RowIds(nw)
       /\ NoDuplicateIds(r)
       /\ IsSortedByTs(r)
       /\ \A i \in DOMAIN r :
            \E k \in DOMAIN cat :
              /\ cat[k] = r[i]
              /\ \A m \in DOMAIN cat : m > k => cat[m].id # r[i].id
       /\ \A i \in DOMAIN r :
            r[i].id \in RowIds(ex) \cap RowIds(nw) =>
              \E k \in DOMAIN nw : nw[k] = r[i]

\* the scenario of the specification: cache {1, 2}, fetch {2, 3}, three rows
\* merged, and the cached row of id 2 differs from the fetched one
C4_Witness ==
  /\ mergeOut.done
  /\ RowIds(mergeIn.existing) = {1, 2}
  /\ RowIds(mergeIn.new_data) = {2, 3}
  /\ Len(mergeIn.existing) = 2
  /\ Len(mergeIn.new_data) = 2
  /\ Len(mergeOut.result) = 3
  /\ \A i \in DOMAIN mergeIn.existing :
       \A k \in DOMAIN mergeIn.new_data :
         mergeIn.existing[i] # mergeIn.new_data[k]

\* the same in the sync itself: what a sync with a non-empty cache and a
\* non-empty fetch persists is such a merge of the two
C4_SyncPersistsMerge ==
  (detLast.op = "sync" /\ detLast.existing # <<>> /\ detLast.fetched # <<>>) =>
    /\ detCache = detLast.result
    /\ RowIds(detCache) = RowIds(detLast.existing) \cup RowIds(detLast.fetched)
    /\ NoDuplicateIds(detCache)
    /\ IsSortedByTs(detCache)

\* C5: the cache only grows: a sync keeps every cached id, never lowers the
\* number of cached rows, and never removes the cache file.
C5_CacheOnlyGrows ==
  detLast.op = "sync" =>
    /\ RowIds(detLast.existing) \subseteq RowIds(detCache)
    /\ Len(detCache) >= Len(detLast.existing)
    /\ detLast.existed => detExists

\* the part of C5 that the code keeps: no cached id and no cache file is lost
C5_IdsAndFileKept ==
  detLast.op = "sync" =>
    /\ RowIds(detLast.existing) \subseteq RowIds(detCache)
    /\ detLast.existed => detExists

\* C3: get_detections returns no row at or before stop_before and none
\* before earliest_detection_at; the result is the listing up to, and
\* without, the first row that meets a boundary; the page of that row is the
\* last page requested.
C3_StopsAtFirstBoundary ==
  fetchOut.done =>
    LET a == fetchArgs
        l == a.listing
        meets(row) == \/ a.stop # NoneTs /\ row.ts <= a.stop
                      \/ a.earliest # NoneTs /\ row.ts < a.earliest
        n == Len(fetchOut.rows)
        first(b) == meets(l[b]) /\ \A i \in 1..(b - 1) : ~meets(l[i])
    IN /\ \A i \in DOMAIN fetchOut.rows :
            /\ a.stop # NoneTs => fetchOut.rows[i].ts > a.stop
            /\ a.earliest # NoneTs => fetchOut.rows[i].ts >= a.earliest
       /\ n <= Len(l)
       /\ fetchOut.rows = SubSeq(l, 1, n)
       /\ fetchOut.hit => \E b \in DOMAIN l : first(b)
       /\ \A b \in DOMAIN l :
            first(b) =>
              /\ n < b
              /\ (fetchOut.requests - 1) * a.pageSize < b
              /\ fetchOut.hit <=> (b - 1) \div a.pageSize < a.maxPages
              /\ fetchOut.hit =>
                   /\ n = b - 1
                   /\ fetchOut.requests = ((b - 1) \div a.pageSize) + 1

C3_Witness ==
  /\ fetchOut.done
  /\ fetchOut.hit
  /\ fetchArgs.stop # NoneTs
  /\ LET l == fetchArgs.listing
         ps == fetchArgs.pageSize
         b == Len(fetchOut.rows) + 1
         pageEnd == (((b - 1) \div ps) + 1) * ps
     IN /\ b >= 2
        /\ l[b].ts <= fetchArgs.stop
        /\ fetchOut.requests = ((b - 1) \div ps) + 1
        /\ Len(l) > pageEnd
        /\ \E i \in DOMAIN l : b < i /\ i <= pageEnd /\ l[i].ts > fetchArgs.stop

(***************************************************************************)
(* Species probabilities: properties                                       *)
(***************************************************************************)
\* C6: a sync that finds the cache file younger than 7 days returns the
\* cached table, issues no request, and leaves the file, content and age,
\* as it was.
C6_FreshCacheServedUntouched ==
  (probLast.op = "sync" /\ probLast.existed /\ probLast.age < 7) =>
    /\ probLast.requests = 0
    /\ probLast.returned = probLast.existing
    /\ probCache = probLast.existing
    /\ probExists
    /\ probAge = probLast.age

\* six days old, and the station would now answer with another table
C6_Witness ==
  /\ probLast.op = "sync"
  /\ probLast.existed
  /\ probLast.age = 6
  /\ get_species_probabilities(probRemote) # <<>>
  /\ get_species_probabilities(probRemote) # probCache

\* C7: a sync that finds no cache file, or one of 7 days or more, issues
\* the request; the file then holds exactly the fetched rows if there are
\* any, and is as before, content and age, if there are none.
C7_StaleCacheReplacedOrKept ==
  (probLast.op = "sync" /\ (~probLast.existed \/ probLast.age >= 7)) =>
    /\ probLast.requests = 1
    /\ probLast.fetched = get_species_probabilities(probRemote)
    /\ probLast.fetched # <<>> =>
         /\ probExists
         /\ probCache = probLast.fetched
         /\ probAge = 0
    /\ probLast.fetched = <<>> =>
         /\ probExists = probLast.existed
         /\ probCache = probLast.existing
         /\ probAge = probLast.age

\* a stale file replaced by a table that shares no row with it
C7_Witness ==
  /\ probLast.op = "sync"
  /\ probLast.existed
  /\ probLast.age = 7
  /\ probLast.fetched # <<>>
  /\ probCache = probLast.fetched
  /\ \A i \in DOMAIN probLast.existing :
       \A k \in DOMAIN probCache : probCache[k] # probLast.existing[i]

(***************************************************************************)
(* Species metadata: properties                                            *)
(***************************************************************************)
HasNullUrl(rows, id) ==
  \E i \in DOMAIN rows : rows[i].speciesId = id /\ rows[i].ebirdUrl = NullUrl

NoDuplicateSpecies(rows) ==
  \A i, j \in DOMAIN rows : rows[i].speciesId = rows[j].speciesId => i = j

\* C8: a cached row whose ebirdUrl is null puts its species in the missing
\* set of the next sync, which then takes the re-fetch branch: it issues the
\* bulk top-species request and writes the cache, also when every species
\* of the detections has a cached row.
C8_NullUrlForcesRefetch ==
  \A id \in SpeciesIds :
    (metaLast.op = "sync" /\ metaLast.existed /\ HasNullUrl(metaLast.existing, id)) =>
      /\ id \in metaLast.missing
      /\ metaLast.branch = "refetch"
      /\ metaLast.topRequests = 1
      /\ metaLast.wrote
      /\ metaExists
      /\ metaCache = metaLast.returned

\* every detected species has a cached row, one of them with a null url
C8_Witness ==
  /\ metaLast.op = "sync"
  /\ metaLast.existed
  /\ metaLast.detections # {}
  /\ metaLast.detections \subseteq MetaIds(metaLast.existing)
  /\ \E id \in metaLast.detections : HasNullUrl(metaLast.existing, id)
  /\ metaLast.branch = "refetch"

\* C9: a sync keeps a row for every speciesId that had one, and no
\* speciesId ever has two rows in the cache.
C9_MetaKeptAndUnique ==
  /\ NoDuplicateSpecies(metaCache)
  /\ metaLast.op = "sync" => MetaIds(metaLast.existing) \subseteq MetaIds(metaCache)

\* the part of C9 that the code keeps: no speciesId has two cached rows
C9_MetaUnique == NoDuplicateSpecies(metaCache)

(***************************************************************************)
(* query_graphql: properties                                               *)
(***************************************************************************)
\* the attempts made so far that failed with a transport error
TransportFailures ==
  {i \in DOMAIN gql.log : gql.log[i].kind \in {"Timeout", "ConnectionError"}}

\* C10: a request that fails with a timeout or a connection error is
\* retried: at most retries attempts are made; after each failed attempt
\* but the last the client waits 2^attempt seconds (attempt from 0); the
\* data of the first successful attempt is returned; and when the last
\* attempt fails too, its transport error propagates.
C10_TransportRetryBackoff ==
  /\ gql.posts = Len(gql.log)
  /\ gql.posts <= gql.retries
  /\ \A i \in DOMAIN gql.waits : i \in TransportFailures /\ gql.waits[i] = 2 ^ (i - 1)
  /\ gql.pc = "run" =>
       /\ gql.posts < gql.retries
       /\ TransportFailures = DOMAIN gql.log
       /\ Len(gql.waits) = gql.posts
  /\ (gql.pc = "done" /\ gql.result.kind = "data") =>
       /\ gql.log[gql.posts] = gql.result
       /\ TransportFailures = 1..(gql.posts - 1)
       /\ Len(gql.waits) = gql.posts - 1
  /\ (gql.pc = "done" /\ gql.posts \in TransportFailures) =>
       /\ gql.posts = gql.retries
       /\ Len(gql.waits) = gql.retries - 1
       /\ gql.result.kind = gql.log[gql.posts].kind

\* the third attempt succeeds after a timeout and a connection error
C10_Witness ==
  /\ gql.pc = "done"
  /\ gql.result = [kind |-> "data", value |-> 2]
  /\ gql.posts = 3
  /\ gql.waits = <<1, 2>>
  /\ gql.log[1].kind = "Timeout"
  /\ gql.log[2].kind = "ConnectionError"

\* C11: a response that carries a GraphQL errors payload ends the call at
\* once with a fatal error carrying that payload: it is the last attempt
\* made, and no wait follows it, whatever the attempt number and whatever
\* is left of the retry budget.
C11_GraphqlErrorFatalAtOnce ==
  \A i \in DOMAIN gql.log :
    gql.log[i].kind = "errors" =>
      /\ gql.pc = "done"
      /\ i = gql.posts
      /\ gql.result = [kind |-> "RuntimeError", value |-> gql.log[i].value]
      /\ Len(gql.waits) = i - 1

\* the second of four allowed attempts answers with an errors payload
C11_Witness ==
  /\ gql.pc = "done"
  /\ gql.retries = 4
  /\ gql.posts = 2
  /\ gql.log[1].kind = "Timeout"
  /\ gql.log[2] = [kind |-> "errors", value |-> 2]
  /\ gql.waits = <<1>>

(***************************************************************************)
(* Pagination: properties                                                  *)
(***************************************************************************)
\* the number of the first page that reports no next page, or that is
\* empty when emptyStops; beyond every page of the cap if there is none
FirstLastPage(a, emptyStops) ==
  LET ends == {i \in 1..a.maxPages :
                 \/ ~a.more /\ i * a.pageSize >= Len(a.listing)
                 \/ emptyStops /\ (i - 1) * a.pageSize >= Len(a.listing)}
  IN IF ends = {} THEN a.maxPages + 1
     ELSE CHOOSE i \in ends : \A j \in ends : i <= j

\* C12: get_detections and get_environment_history issue at most max_pages
\* page requests, also when every page reports hasNextPage = true, and stop
\* at the first page that reports no next page (get_detections also at the
\* first empty page).
C12_PaginationWithinCap ==
  /\ fetchOut.done =>
       /\ fetchOut.requests <= fetchArgs.maxPages
       /\ fetchOut.requests <= FirstLastPage(fetchArgs, TRUE)
       /\ ~fetchOut.hit =>
            fetchOut.requests = Min(fetchArgs.maxPages, FirstLastPage(fetchArgs, TRUE))
  /\ envOut.done =>
       /\ envOut.requests <= fetchArgs.maxPages
       /\ envOut.requests = Min(fetchArgs.maxPages, FirstLastPage(fetchArgs, FALSE))

\* a server that reports a next page on every page and has rows for more
\* pages than the cap: both fetches stop at the cap
C12_Witness ==
  /\ fetchOut.done
  /\ envOut.done
  /\ fetchArgs.more
  /\ fetchArgs.maxPages = 2
  /\ Len(fetchArgs.listing) > fetchArgs.maxPages * fetchArgs.pageSize
  /\ ~fetchOut.hit
  /\ fetchOut.requests = 2
  /\ envOut.requests = 2

(***************************************************************************)
(* Environment: properties                                                 *)
(***************************************************************************)
NoDuplicateTimestamps(rows) ==
  \A i, j \in DOMAIN rows : rows[i].ts = rows[j].ts => i = j

\* the last row of rows that has the timestamp t
LastObserved(rows, t) ==
  rows[CHOOSE i \in DOMAIN rows :
         rows[i].ts = t /\ \A j \in DOMAIN rows : j > i => rows[j].ts # t]

\* C13: the environment cache holds at most one row per timestamp, in
\* ascending timestamp order; of several readings of one timestamp among
\* the cached and the fetched ones, the cache keeps the last observed.
C13_EnvUniqueSortedLastWins ==
  /\ NoDuplicateTimestamps(envCache)
  /\ IsSortedByTs(envCache)
  /\ (envLast.op = "sync" /\ envLast.returned # <<>>) =>
       LET seen == envLast.existing \o envLast.fetched
       IN \A i \in DOMAIN envCache : envCache[i] = LastObserved(seen, envCache[i].ts)

\* the parts of C13 that hold: the cache is sorted, and a merge into a
\* non-empty cache of unique timestamps leaves unique timestamps, the last
\* observed row of each
C13_EnvSortedAndMergeUnique ==
  /\ IsSortedByTs(envCache)
  /\ (envLast.op = "sync" /\ envLast.existed /\ envLast.existing # <<>>
        /\ NoDuplicateTimestamps(envLast.existing)) =>
       /\ NoDuplicateTimestamps(envCache)
       /\ LET seen == envLast.existing \o envLast.fetched
          IN \A i \in DOMAIN envCache : envCache[i] = LastObserved(seen, envCache[i].ts)

(***************************************************************************)
(* Station id: properties                                                  *)
(***************************************************************************)
\* C14: the lookup query is issued only for a token that is not numeric
\* and was not resolved before; a numeric token is returned unchanged
\* without a request; a token resolved before returns the cached id without
\* a request; a lookup that matches no station fails with the not-found
\* error and leaves the cache as it was.
C14_ResolveStationId ==
  stationLast.op = "resolve" =>
    LET t == stationLast.token
        before == stationLast.cacheBefore
        numeric == t # <<>> /\ \A i \in DOMAIN t : t[i] \in {"0", "1", "2", "7"}
    IN /\ stationLast.requests \in {0, 1}
       /\ stationLast.requests = 1 <=>
            (t # <<>> /\ ~numeric /\ before[t] = NoStation)
       /\ numeric =>
            /\ stationLast.kind = "ok"
            /\ stationLast.value = t
            /\ stationCache = before
       /\ before[t] # NoStation =>
            /\ stationLast.kind = "ok"
            /\ stationLast.value = StrOfId(before[t])
            /\ stationCache = before
       /\ (stationLast.requests = 1 /\ ~stationLast.failed
             /\ stationLast.answer = NoStation) =>
            /\ stationLast.kind = "ValueError"
            /\ stationCache = before
       /\ \A u \in Tokens : before[u] # NoStation => stationCache[u] = before[u]

\* a slug resolved earlier is asked for again after its station changed:
\* the cached id is returned, without a request
C14_Witness ==
  /\ stationLast.op = "resolve"
  /\ stationLast.token = <<"a">>
  /\ stationLast.cacheBefore[<<"a">>] = 1
  /\ stationRemote[<<"a">>] = 2
  /\ stationLast.requests = 0
  /\ stationLast.value = <<"1">>

(***************************************************************************)
(* Aggregations: properties                                                *)
(***************************************************************************)
\* the detections that pass the period filter of the call recorded in aggOut
AggKept ==
  {i \in DOMAIN aggIn.detections :
     aggIn.period_days = NoPeriod
       \/ aggIn.detections[i].ts >= aggOut.now - aggIn.period_days * 24}

\* C15: in the result of compute_daily_detection_counts, the counts of the
\* rows of a date add up to the dailyTotal that each of these rows carries,
\* and that total is the number of detections, of those that pass the
\* period filter, that fall on the date.
C15_DailyCountsAddUp ==
  (aggOut.done /\ aggOut.op = "daily") =>
    LET r == aggOut.result
        onDate(d) == {i \in AggKept : aggIn.detections[i].ts \div 24 = d}
    IN /\ \A i \in DOMAIN r :
            /\ SumCount({[pos |-> k, count |-> r[k].count] :
                           k \in {j \in DOMAIN r : r[j].date = r[i].date}})
                 = r[i].dailyTotal
            /\ r[i].dailyTotal = Cardinality(onDate(r[i].date))
       /\ \A i \in AggKept : \E k \in DOMAIN r : r[k].date = aggIn.detections[i].ts \div 24

\* three detections of one date in two species rows, after a period filter
\* that removed nothing of that date
C15_Witness ==
  /\ aggOut.done
  /\ aggOut.op = "daily"
  /\ aggIn.period_days # NoPeriod
  /\ \E i, j \in DOMAIN aggOut.result :
       /\ i # j
       /\ aggOut.result[i].date = aggOut.result[j].date
       /\ aggOut.result[i].count = 2
       /\ aggOut.result[j].count = 1
       /\ aggOut.result[i].dailyTotal = 3

\* C16: in the result of compute_time_of_day_counts, the counts of the hour
\* rows of a speciesId add up to the totalCount that each of these rows
\* carries, also when the speciesId comes with more than one commonName;
\* that total is the number of detections of the species, and every hour
\* lies in 0..23.
C16_HourlyCountsAddUp ==
  (aggOut.done /\ aggOut.op = "time_of_day") =>
    LET r == aggOut.result
    IN /\ \A i \in DOMAIN r :
            /\ SumCount({[pos |-> k, count |-> r[k].count] :
                           k \in {j \in DOMAIN r : r[j].speciesId = r[i].speciesId}})
                 = r[i].totalCount
            /\ r[i].totalCount =
                 Cardinality({k \in DOMAIN aggIn.detections :
                                aggIn.detections[k].speciesId = r[i].speciesId})
            /\ r[i].hour \in 0..23
       /\ \A k \in DOMAIN aggIn.detections :
            \E i \in DOMAIN r : r[i].speciesId = aggIn.detections[k].speciesId

\* one species under two names, in two hours
C16_Witness ==
  /\ aggOut.done
  /\ aggOut.op = "time_of_day"
  /\ \E i, j \in DOMAIN aggOut.result :
       /\ aggOut.result[i].speciesId = aggOut.result[j].speciesId
       /\ aggOut.result[i].commonName # aggOut.result[j].commonName
       /\ aggOut.result[i].hour # aggOut.result[j].hour
       /\ aggOut.result[i].count = 2
       /\ aggOut.result[i].totalCount = 3

\* C17: compute_top_species returns zero rows and the full set of 14
\* columns when there is nothing to aggregate, be it that no detection was
\* given or that the period filter removed them all; a non-empty result has
\* the same columns, whatever columns the metadata has.
C17_TopSpeciesColumns ==
  (aggOut.done /\ aggOut.op = "top") =>
    /\ AggKept = {} =>
         /\ aggOut.kind = "ok"
         /\ aggOut.result = <<>>
    /\ aggOut.kind = "ok" =>
         /\ aggOut.columns =
              <<"speciesId", "commonName", "scientificName", "imageUrl",
                "thumbnailUrl", "color", "ebirdUrl", "wikipediaSummary", "count",
                "almostCertain", "veryLikely", "uncertain", "unlikely",
                "averageProbability">>
         /\ AggKept # {} => aggOut.result # <<>>

\* detections were given, the period filter removed them all, and the
\* metadata has two columns only
C17_Witness ==
  /\ aggOut.done
  /\ aggOut.op = "top"
  /\ aggIn.detections # <<>>
  /\ AggKept = {}
  /\ aggOut.species_meta.columns = <<"speciesId", "imageUrl">>
  /\ aggOut.result = <<>>
  /\ Len(aggOut.columns) = 14

\* a non-empty result with a metadata table that lacks expected columns
C17_WitnessNonEmpty ==
  /\ aggOut.done
  /\ aggOut.op = "top"
  /\ aggOut.kind = "ok"
  /\ aggOut.species_meta.columns = <<"speciesId", "imageUrl">>
  /\ Len(aggOut.result) = 3
  /\ Len(aggOut.columns) = 14

(***************************************************************************)
(* Detections: incremental sync                                            *)
(***************************************************************************)
\* the listing is served newest first
IsNewestFirst(listing) ==
  \A i, j \in DOMAIN listing : i < j => listing[i].ts >= listing[j].ts

\* C18: after a sync on a non-empty cache, the listing unchanged while it
\* ran, the cache holds every detection of the listing whose timestamp is
\* at or after the previous maximum cached timestamp, also when the fetch
\* was cut off by the page cap and when a new detection has the timestamp
\* of the cached maximum.
C18_IncrementalSyncNoGap ==
  (detLast.op = "sync" /\ detLast.quiet /\ detLast.existing # <<>>) =>
    \A i \in DOMAIN remote :
      remote[i].ts >= detLast.stop => remote[i].id \in RowIds(detCache)

\* the part of C18 that holds: from a listing served newest first, a fetch
\* that the page cap did not cut off brings every detection strictly newer
\* than the previous maximum cached timestamp (and not older than the
\* earliest_detection_at given)
C18_StrictlyNewerFetched ==
  (detLast.op = "sync" /\ detLast.quiet /\ detLast.existing # <<>>
     /\ IsNewestFirst(remote)
     /\ (detLast.fetched = <<>> \/ detLast.requests < DetMaxPages)) =>
    \A i \in DOMAIN remote :
      (remote[i].ts > detLast.stop
         /\ (detLast.earliest = NoneTs \/ remote[i].ts >= detLast.earliest)) =>
        remote[i].id \in RowIds(detCache)

(***************************************************************************)
(* Species metadata: repeated sync                                         *)
(***************************************************************************)
\* C19: with the same detections and unchanged remote metadata, the calls
\* of sync_species_meta end up taking the branch that issues no request and
\* writes nothing, also when a species has a null ebirdUrl upstream or a
\* detected species is returned by neither lookup.
C19_MetaReachesFixpoint ==
  <>[](metaLast.op = "sync" /\ metaLast.branch = "cached")

\* the part of C19 that holds: the calls end up in the no-op branch unless
\* the cache is left with a null ebirdUrl, without a row for a detected
\* species, or empty
C19_FixpointUnlessIncomplete ==
  \/ <>[](metaLast.op = "sync" /\ metaLast.branch = "cached")
  \/ <>[](/\ metaLast.op = "sync"
          /\ \/ metaCache = <<>>
             \/ \E id \in SpeciesIds : HasNullUrl(metaCache, id)
             \/ ~(metaLast.detections \subseteq MetaIds(metaCache)))

====
